---- MODULE Spec2Model ----
(***************************************************************************)
(* A model of the PIN-gated writing portal of src/app.py: the session gate *)
(* (pin_required, pin), the handlers that read and write the writings      *)
(* table (category_view, delete_text, download_text) and the helpers they  *)
(* compute with.                                                           *)
(*                                                                         *)
(* app.run (line 291) serves every request in a thread of its own, so the  *)
(* handlers of several requests, of one client or of several, run          *)
(* interleaved.  A request is a record in the bag inflight from the moment *)
(* the client sends it to the moment the client has the answer; a step of  *)
(* a handler takes it from one point of the code to the next, and a step   *)
(* reads or writes what requests share (the clock, the table) once.  The   *)
(* session is Flask's: a cookie that the client holds.  A request carries  *)
(* the cookie the client holds when it is sent, the handler works on its   *)
(* own copy, and the answer hands the copy back if the handler changed it. *)
(*                                                                         *)
(* Each request opens a connection of its own to the database file, and    *)
(* SQLite's locks order what the connections do: an UPDATE, an INSERT or a *)
(* DELETE opens a transaction that conn.commit() ends, one at a time; a    *)
(* SELECT keeps commits out until its cursor is read to the end, and a     *)
(* commit that waits keeps new SELECTs out.  A connection waits for a lock *)
(* for the 5 s of sqlite3's default timeout and then raises.               *)
(*                                                                         *)
(* A text (a form field, a query argument, a title) is a sequence of       *)
(* Unicode code points, as a Python str is: "A/b" is <<65, 47, 98>>.  A    *)
(* form, a query string and a session are functions from the keys that are *)
(* present to their values.  Slugs, endpoints and keys are only compared   *)
(* and are kept as strings.  Times are whole seconds.                      *)
(***************************************************************************)
EXTENDS Integers, Sequences, FiniteSets, Bags, TLC

VARIABLES
    clock,      \* time.time(): seconds since the epoch
    utcoffset,  \* what the host's zone adds to it to give datetime.now()
    PIN_CODE,   \* os.environ.get("RYAN_PORTAL_PIN", "1234"), read at start-up
    session,    \* per client, the session cookie it holds
    writings,   \* the rows of the writings table
    seq,        \* sqlite_sequence: the largest rowid AUTOINCREMENT has given
    inflight,   \* the requests sent and not yet answered: a bag of records
    unclosed,   \* whether a connection whose commit failed is still open
    issued,     \* history: every id a committed INSERT has given so far
    pin_time,   \* history: per client, when its PIN was last accepted
    allowed,    \* history: per client, when the gate last let a request through
    refused     \* history: per client, whether the gate has emptied a session
                \* for inactivity, no PIN being accepted or answered since

vars == <<clock, utcoffset, PIN_CODE, session, writings, seq, inflight,
          unclosed, issued, pin_time, allowed, refused>>

-----------------------------------------------------------------------------
(* Module-level configuration *)

\* os.environ.get("RYAN_PORTAL_PIN", "1234") with the variable unset: "1234"
DefaultPin == <<49, 50, 51, 52>>

INACTIVITY_TIMEOUT == 15 * 60

CATEGORIES == {"poemas", "cuentos", "escritos"}

\* Python's None, for a key that a form, a query string or a session lacks.
None == -1

\* `title ... or "Sin título"`
SinTitulo == <<83, 105, 110, 32, 116, 237, 116, 117, 108, 111>>

\* `row["title"] or "sin_titulo"`
sin_titulo == <<115, 105, 110, 95, 116, 105, 116, 117, 108, 111>>

-----------------------------------------------------------------------------
(* Text helpers: str.strip, str.lower, str.replace *)

\* The code points c with chr(c).isspace(): what str.strip() removes.
Whitespace ==
    (9..13) \cup (28..32) \cup {133, 160, 5760} \cup (8192..8202)
        \cup {8232, 8233, 8239, 8287, 12288}

\* s without its leading elements that are in chars
DropLeading(s, chars) ==
    IF \A k \in 1..Len(s) : s[k] \in chars THEN <<>>
    ELSE SubSeq(s,
                CHOOSE k \in 1..Len(s) :
                    s[k] \notin chars /\ \A j \in 1..(k - 1) : s[j] \in chars,
                Len(s))

\* s without its trailing elements that are in chars
DropTrailing(s, chars) ==
    IF \A k \in 1..Len(s) : s[k] \in chars THEN <<>>
    ELSE SubSeq(s, 1,
                CHOOSE k \in 1..Len(s) :
                    /\ s[k] \notin chars
                    /\ \A j \in (k + 1)..Len(s) : s[j] \in chars)

LStrip(s) == DropLeading(s, Whitespace)

RStrip(s) == DropTrailing(s, Whitespace)

Strip(s) == RStrip(LStrip(s))

InRanges(ch, ranges) ==
    \E k \in 1..Len(ranges) : ranges[k][1] <= ch /\ ch <= ranges[k][2]

\* The simple lowercase mappings of Unicode 14 (Python 3.11), each entry
\* <<first, last, step, delta>>: the code points first, first + step, ...,
\* last are lowered by adding delta.  Every code point with a lowercase form
\* of one code point is here but U+03A3, whose form depends on its place.
LowerRuns ==
    << <<65, 90, 1, 32>>, <<192, 214, 1, 32>>, <<216, 222, 1, 32>>,
       <<256, 302, 2, 1>>, <<306, 310, 2, 1>>, <<313, 327, 2, 1>>,
       <<330, 374, 2, 1>>, <<376, 376, 1, -121>>, <<377, 381, 2, 1>>,
       <<385, 385, 1, 210>>, <<386, 388, 2, 1>>, <<390, 390, 1, 206>>,
       <<391, 391, 1, 1>>, <<393, 394, 1, 205>>, <<395, 395, 1, 1>>,
       <<398, 398, 1, 79>>, <<399, 399, 1, 202>>, <<400, 400, 1, 203>>,
       <<401, 401, 1, 1>>, <<403, 403, 1, 205>>, <<404, 404, 1, 207>>,
       <<406, 406, 1, 211>>, <<407, 407, 1, 209>>, <<408, 408, 1, 1>>,
       <<412, 412, 1, 211>>, <<413, 413, 1, 213>>, <<415, 415, 1, 214>>,
       <<416, 420, 2, 1>>, <<422, 422, 1, 218>>, <<423, 423, 1, 1>>,
       <<425, 425, 1, 218>>, <<428, 428, 1, 1>>, <<430, 430, 1, 218>>,
       <<431, 431, 1, 1>>, <<433, 434, 1, 217>>, <<435, 437, 2, 1>>,
       <<439, 439, 1, 219>>, <<440, 440, 1, 1>>, <<444, 444, 1, 1>>,
       <<452, 452, 1, 2>>, <<453, 453, 1, 1>>, <<455, 455, 1, 2>>,
       <<456, 456, 1, 1>>, <<458, 458, 1, 2>>, <<459, 475, 2, 1>>,
       <<478, 494, 2, 1>>, <<497, 497, 1, 2>>, <<498, 500, 2, 1>>,
       <<502, 502, 1, -97>>, <<503, 503, 1, -56>>, <<504, 542, 2, 1>>,
       <<544, 544, 1, -130>>, <<546, 562, 2, 1>>, <<570, 570, 1, 10795>>,
       <<571, 571, 1, 1>>, <<573, 573, 1, -163>>, <<574, 574, 1, 10792>>,
       <<577, 577, 1, 1>>, <<579, 579, 1, -195>>, <<580, 580, 1, 69>>,
       <<581, 581, 1, 71>>, <<582, 590, 2, 1>>, <<880, 882, 2, 1>>,
       <<886, 886, 1, 1>>, <<895, 895, 1, 116>>, <<902, 902, 1, 38>>,
       <<904, 906, 1, 37>>, <<908, 908, 1, 64>>, <<910, 911, 1, 63>>,
       <<913, 929, 1, 32>>, <<932, 939, 1, 32>>, <<975, 975, 1, 8>>,
       <<984, 1006, 2, 1>>, <<1012, 1012, 1, -60>>, <<1015, 1015, 1, 1>>,
       <<1017, 1017, 1, -7>>, <<1018, 1018, 1, 1>>, <<1021, 1023, 1, -130>>,
       <<1024, 1039, 1, 80>>, <<1040, 1071, 1, 32>>, <<1120, 1152, 2, 1>>,
       <<1162, 1214, 2, 1>>, <<1216, 1216, 1, 15>>, <<1217, 1229, 2, 1>>,
       <<1232, 1326, 2, 1>>, <<1329, 1366, 1, 48>>, <<4256, 4293, 1, 7264>>,
       <<4295, 4295, 1, 7264>>, <<4301, 4301, 1, 7264>>,
       <<5024, 5103, 1, 38864>>, <<5104, 5109, 1, 8>>,
       <<7312, 7354, 1, -3008>>, <<7357, 7359, 1, -3008>>,
       <<7680, 7828, 2, 1>>, <<7838, 7838, 1, -7615>>, <<7840, 7934, 2, 1>>,
       <<7944, 7951, 1, -8>>, <<7960, 7965, 1, -8>>, <<7976, 7983, 1, -8>>,
       <<7992, 7999, 1, -8>>, <<8008, 8013, 1, -8>>, <<8025, 8031, 2, -8>>,
       <<8040, 8047, 1, -8>>, <<8072, 8079, 1, -8>>, <<8088, 8095, 1, -8>>,
       <<8104, 8111, 1, -8>>, <<8120, 8121, 1, -8>>, <<8122, 8123, 1, -74>>,
       <<8124, 8124, 1, -9>>, <<8136, 8139, 1, -86>>, <<8140, 8140, 1, -9>>,
       <<8152, 8153, 1, -8>>, <<8154, 8155, 1, -100>>, <<8168, 8169, 1, -8>>,
       <<8170, 8171, 1, -112>>, <<8172, 8172, 1, -7>>,
       <<8184, 8185, 1, -128>>, <<8186, 8187, 1, -126>>,
       <<8188, 8188, 1, -9>>, <<8486, 8486, 1, -7517>>,
       <<8490, 8490, 1, -8383>>, <<8491, 8491, 1, -8262>>,
       <<8498, 8498, 1, 28>>, <<8544, 8559, 1, 16>>, <<8579, 8579, 1, 1>>,
       <<9398, 9423, 1, 26>>, <<11264, 11311, 1, 48>>, <<11360, 11360, 1, 1>>,
       <<11362, 11362, 1, -10743>>, <<11363, 11363, 1, -3814>>,
       <<11364, 11364, 1, -10727>>, <<11367, 11371, 2, 1>>,
       <<11373, 11373, 1, -10780>>, <<11374, 11374, 1, -10749>>,
       <<11375, 11375, 1, -10783>>, <<11376, 11376, 1, -10782>>,
       <<11378, 11378, 1, 1>>, <<11381, 11381, 1, 1>>,
       <<11390, 11391, 1, -10815>>, <<11392, 11490, 2, 1>>,
       <<11499, 11501, 2, 1>>, <<11506, 11506, 1, 1>>, <<42560, 42604, 2, 1>>,
       <<42624, 42650, 2, 1>>, <<42786, 42798, 2, 1>>, <<42802, 42862, 2, 1>>,
       <<42873, 42875, 2, 1>>, <<42877, 42877, 1, -35332>>,
       <<42878, 42886, 2, 1>>, <<42891, 42891, 1, 1>>,
       <<42893, 42893, 1, -42280>>, <<42896, 42898, 2, 1>>,
       <<42902, 42920, 2, 1>>, <<42922, 42922, 1, -42308>>,
       <<42923, 42923, 1, -42319>>, <<42924, 42924, 1, -42315>>,
       <<42925, 42925, 1, -42305>>, <<42926, 42926, 1, -42308>>,
       <<42928, 42928, 1, -42258>>, <<42929, 42929, 1, -42282>>,
       <<42930, 42930, 1, -42261>>, <<42931, 42931, 1, 928>>,
       <<42932, 42946, 2, 1>>, <<42948, 42948, 1, -48>>,
       <<42949, 42949, 1, -42307>>, <<42950, 42950, 1, -35384>>,
       <<42951, 42953, 2, 1>>, <<42960, 42960, 1, 1>>, <<42966, 42968, 2, 1>>,
       <<42997, 42997, 1, 1>>, <<65313, 65338, 1, 32>>,
       <<66560, 66599, 1, 40>>, <<66736, 66771, 1, 40>>,
       <<66928, 66938, 1, 39>>, <<66940, 66954, 1, 39>>,
       <<66956, 66962, 1, 39>>, <<66964, 66965, 1, 39>>,
       <<68736, 68786, 1, 64>>, <<71840, 71871, 1, 32>>,
       <<93760, 93791, 1, 32>>, <<125184, 125217, 1, 34>> >>

\* The code points with the property Cased.
CasedRanges ==
    << <<65, 90>>, <<97, 122>>, <<170, 170>>, <<181, 181>>, <<186, 186>>,
       <<192, 214>>, <<216, 246>>, <<248, 442>>, <<444, 447>>, <<452, 659>>,
       <<661, 696>>, <<704, 705>>, <<736, 740>>, <<837, 837>>, <<880, 883>>,
       <<886, 887>>, <<890, 893>>, <<895, 895>>, <<902, 902>>, <<904, 906>>,
       <<908, 908>>, <<910, 929>>, <<931, 1013>>, <<1015, 1153>>,
       <<1162, 1327>>, <<1329, 1366>>, <<1376, 1416>>, <<4256, 4293>>,
       <<4295, 4295>>, <<4301, 4301>>, <<4304, 4346>>, <<4349, 4351>>,
       <<5024, 5109>>, <<5112, 5117>>, <<7296, 7304>>, <<7312, 7354>>,
       <<7357, 7359>>, <<7424, 7615>>, <<7680, 7957>>, <<7960, 7965>>,
       <<7968, 8005>>, <<8008, 8013>>, <<8016, 8023>>, <<8025, 8025>>,
       <<8027, 8027>>, <<8029, 8029>>, <<8031, 8061>>, <<8064, 8116>>,
       <<8118, 8124>>, <<8126, 8126>>, <<8130, 8132>>, <<8134, 8140>>,
       <<8144, 8147>>, <<8150, 8155>>, <<8160, 8172>>, <<8178, 8180>>,
       <<8182, 8188>>, <<8305, 8305>>, <<8319, 8319>>, <<8336, 8348>>,
       <<8450, 8450>>, <<8455, 8455>>, <<8458, 8467>>, <<8469, 8469>>,
       <<8473, 8477>>, <<8484, 8484>>, <<8486, 8486>>, <<8488, 8488>>,
       <<8490, 8493>>, <<8495, 8500>>, <<8505, 8505>>, <<8508, 8511>>,
       <<8517, 8521>>, <<8526, 8526>>, <<8544, 8575>>, <<8579, 8580>>,
       <<9398, 9449>>, <<11264, 11492>>, <<11499, 11502>>, <<11506, 11507>>,
       <<11520, 11557>>, <<11559, 11559>>, <<11565, 11565>>, <<42560, 42605>>,
       <<42624, 42653>>, <<42786, 42887>>, <<42891, 42894>>, <<42896, 42954>>,
       <<42960, 42961>>, <<42963, 42963>>, <<42965, 42969>>, <<42997, 42998>>,
       <<43000, 43002>>, <<43824, 43866>>, <<43868, 43880>>, <<43888, 43967>>,
       <<64256, 64262>>, <<64275, 64279>>, <<65313, 65338>>, <<65345, 65370>>,
       <<66560, 66639>>, <<66736, 66771>>, <<66776, 66811>>, <<66928, 66938>>,
       <<66940, 66954>>, <<66956, 66962>>, <<66964, 66965>>, <<66967, 66977>>,
       <<66979, 66993>>, <<66995, 67001>>, <<67003, 67004>>, <<67456, 67456>>,
       <<67459, 67461>>, <<67463, 67504>>, <<67506, 67514>>, <<68736, 68786>>,
       <<68800, 68850>>, <<71840, 71903>>, <<93760, 93823>>,
       <<119808, 119892>>, <<119894, 119964>>, <<119966, 119967>>,
       <<119970, 119970>>, <<119973, 119974>>, <<119977, 119980>>,
       <<119982, 119993>>, <<119995, 119995>>, <<119997, 120003>>,
       <<120005, 120069>>, <<120071, 120074>>, <<120077, 120084>>,
       <<120086, 120092>>, <<120094, 120121>>, <<120123, 120126>>,
       <<120128, 120132>>, <<120134, 120134>>, <<120138, 120144>>,
       <<120146, 120485>>, <<120488, 120512>>, <<120514, 120538>>,
       <<120540, 120570>>, <<120572, 120596>>, <<120598, 120628>>,
       <<120630, 120654>>, <<120656, 120686>>, <<120688, 120712>>,
       <<120714, 120744>>, <<120746, 120770>>, <<120772, 120779>>,
       <<122624, 122633>>, <<122635, 122654>>, <<125184, 125251>>,
       <<127280, 127305>>, <<127312, 127337>>, <<127344, 127369>> >>

\* The code points with the property Case_Ignorable.
CaseIgnorableRanges ==
    << <<39, 39>>, <<46, 46>>, <<58, 58>>, <<94, 94>>, <<96, 96>>,
       <<168, 168>>, <<173, 173>>, <<175, 175>>, <<180, 180>>, <<183, 184>>,
       <<688, 879>>, <<884, 885>>, <<890, 890>>, <<900, 901>>, <<903, 903>>,
       <<1155, 1161>>, <<1369, 1369>>, <<1375, 1375>>, <<1425, 1469>>,
       <<1471, 1471>>, <<1473, 1474>>, <<1476, 1477>>, <<1479, 1479>>,
       <<1524, 1524>>, <<1536, 1541>>, <<1552, 1562>>, <<1564, 1564>>,
       <<1600, 1600>>, <<1611, 1631>>, <<1648, 1648>>, <<1750, 1757>>,
       <<1759, 1768>>, <<1770, 1773>>, <<1807, 1807>>, <<1809, 1809>>,
       <<1840, 1866>>, <<1958, 1968>>, <<2027, 2037>>, <<2042, 2042>>,
       <<2045, 2045>>, <<2070, 2093>>, <<2137, 2139>>, <<2184, 2184>>,
       <<2192, 2193>>, <<2200, 2207>>, <<2249, 2306>>, <<2362, 2362>>,
       <<2364, 2364>>, <<2369, 2376>>, <<2381, 2381>>, <<2385, 2391>>,
       <<2402, 2403>>, <<2417, 2417>>, <<2433, 2433>>, <<2492, 2492>>,
       <<2497, 2500>>, <<2509, 2509>>, <<2530, 2531>>, <<2558, 2558>>,
       <<2561, 2562>>, <<2620, 2620>>, <<2625, 2626>>, <<2631, 2632>>,
       <<2635, 2637>>, <<2641, 2641>>, <<2672, 2673>>, <<2677, 2677>>,
       <<2689, 2690>>, <<2748, 2748>>, <<2753, 2757>>, <<2759, 2760>>,
       <<2765, 2765>>, <<2786, 2787>>, <<2810, 2815>>, <<2817, 2817>>,
       <<2876, 2876>>, <<2879, 2879>>, <<2881, 2884>>, <<2893, 2893>>,
       <<2901, 2902>>, <<2914, 2915>>, <<2946, 2946>>, <<3008, 3008>>,
       <<3021, 3021>>, <<3072, 3072>>, <<3076, 3076>>, <<3132, 3132>>,
       <<3134, 3136>>, <<3142, 3144>>, <<3146, 3149>>, <<3157, 3158>>,
       <<3170, 3171>>, <<3201, 3201>>, <<3260, 3260>>, <<3263, 3263>>,
       <<3270, 3270>>, <<3276, 3277>>, <<3298, 3299>>, <<3328, 3329>>,
       <<3387, 3388>>, <<3393, 3396>>, <<3405, 3405>>, <<3426, 3427>>,
       <<3457, 3457>>, <<3530, 3530>>, <<3538, 3540>>, <<3542, 3542>>,
       <<3633, 3633>>, <<3636, 3642>>, <<3654, 3662>>, <<3761, 3761>>,
       <<3764, 3772>>, <<3782, 3782>>, <<3784, 3789>>, <<3864, 3865>>,
       <<3893, 3893>>, <<3895, 3895>>, <<3897, 3897>>, <<3953, 3966>>,
       <<3968, 3972>>, <<3974, 3975>>, <<3981, 3991>>, <<3993, 4028>>,
       <<4038, 4038>>, <<4141, 4144>>, <<4146, 4151>>, <<4153, 4154>>,
       <<4157, 4158>>, <<4184, 4185>>, <<4190, 4192>>, <<4209, 4212>>,
       <<4226, 4226>>, <<4229, 4230>>, <<4237, 4237>>, <<4253, 4253>>,
       <<4348, 4348>>, <<4957, 4959>>, <<5906, 5908>>, <<5938, 5939>>,
       <<5970, 5971>>, <<6002, 6003>>, <<6068, 6069>>, <<6071, 6077>>,
       <<6086, 6086>>, <<6089, 6099>>, <<6103, 6103>>, <<6109, 6109>>,
       <<6155, 6159>>, <<6211, 6211>>, <<6277, 6278>>, <<6313, 6313>>,
       <<6432, 6434>>, <<6439, 6440>>, <<6450, 6450>>, <<6457, 6459>>,
       <<6679, 6680>>, <<6683, 6683>>, <<6742, 6742>>, <<6744, 6750>>,
       <<6752, 6752>>, <<6754, 6754>>, <<6757, 6764>>, <<6771, 6780>>,
       <<6783, 6783>>, <<6823, 6823>>, <<6832, 6862>>, <<6912, 6915>>,
       <<6964, 6964>>, <<6966, 6970>>, <<6972, 6972>>, <<6978, 6978>>,
       <<7019, 7027>>, <<7040, 7041>>, <<7074, 7077>>, <<7080, 7081>>,
       <<7083, 7085>>, <<7142, 7142>>, <<7144, 7145>>, <<7149, 7149>>,
       <<7151, 7153>>, <<7212, 7219>>, <<7222, 7223>>, <<7288, 7293>>,
       <<7376, 7378>>, <<7380, 7392>>, <<7394, 7400>>, <<7405, 7405>>,
       <<7412, 7412>>, <<7416, 7417>>, <<7468, 7530>>, <<7544, 7544>>,
       <<7579, 7679>>, <<8125, 8125>>, <<8127, 8129>>, <<8141, 8143>>,
       <<8157, 8159>>, <<8173, 8175>>, <<8189, 8190>>, <<8203, 8207>>,
       <<8216, 8217>>, <<8228, 8228>>, <<8231, 8231>>, <<8234, 8238>>,
       <<8288, 8292>>, <<8294, 8303>>, <<8305, 8305>>, <<8319, 8319>>,
       <<8336, 8348>>, <<8400, 8432>>, <<11388, 11389>>, <<11503, 11505>>,
       <<11631, 11631>>, <<11647, 11647>>, <<11744, 11775>>, <<11823, 11823>>,
       <<12293, 12293>>, <<12330, 12333>>, <<12337, 12341>>, <<12347, 12347>>,
       <<12441, 12446>>, <<12540, 12542>>, <<40981, 40981>>, <<42232, 42237>>,
       <<42508, 42508>>, <<42607, 42610>>, <<42612, 42621>>, <<42623, 42623>>,
       <<42652, 42655>>, <<42736, 42737>>, <<42752, 42785>>, <<42864, 42864>>,
       <<42888, 42890>>, <<42994, 42996>>, <<43000, 43001>>, <<43010, 43010>>,
       <<43014, 43014>>, <<43019, 43019>>, <<43045, 43046>>, <<43052, 43052>>,
       <<43204, 43205>>, <<43232, 43249>>, <<43263, 43263>>, <<43302, 43309>>,
       <<43335, 43345>>, <<43392, 43394>>, <<43443, 43443>>, <<43446, 43449>>,
       <<43452, 43453>>, <<43471, 43471>>, <<43493, 43494>>, <<43561, 43566>>,
       <<43569, 43570>>, <<43573, 43574>>, <<43587, 43587>>, <<43596, 43596>>,
       <<43632, 43632>>, <<43644, 43644>>, <<43696, 43696>>, <<43698, 43700>>,
       <<43703, 43704>>, <<43710, 43711>>, <<43713, 43713>>, <<43741, 43741>>,
       <<43756, 43757>>, <<43763, 43764>>, <<43766, 43766>>, <<43867, 43871>>,
       <<43881, 43883>>, <<44005, 44005>>, <<44008, 44008>>, <<44013, 44013>>,
       <<64286, 64286>>, <<64434, 64450>>, <<65024, 65039>>, <<65043, 65043>>,
       <<65056, 65071>>, <<65106, 65106>>, <<65109, 65109>>, <<65279, 65279>>,
       <<65287, 65287>>, <<65294, 65294>>, <<65306, 65306>>, <<65342, 65342>>,
       <<65344, 65344>>, <<65392, 65392>>, <<65438, 65439>>, <<65507, 65507>>,
       <<65529, 65531>>, <<66045, 66045>>, <<66272, 66272>>, <<66422, 66426>>,
       <<67456, 67461>>, <<67463, 67504>>, <<67506, 67514>>, <<68097, 68099>>,
       <<68101, 68102>>, <<68108, 68111>>, <<68152, 68154>>, <<68159, 68159>>,
       <<68325, 68326>>, <<68900, 68903>>, <<69291, 69292>>, <<69446, 69456>>,
       <<69506, 69509>>, <<69633, 69633>>, <<69688, 69702>>, <<69744, 69744>>,
       <<69747, 69748>>, <<69759, 69761>>, <<69811, 69814>>, <<69817, 69818>>,
       <<69821, 69821>>, <<69826, 69826>>, <<69837, 69837>>, <<69888, 69890>>,
       <<69927, 69931>>, <<69933, 69940>>, <<70003, 70003>>, <<70016, 70017>>,
       <<70070, 70078>>, <<70089, 70092>>, <<70095, 70095>>, <<70191, 70193>>,
       <<70196, 70196>>, <<70198, 70199>>, <<70206, 70206>>, <<70367, 70367>>,
       <<70371, 70378>>, <<70400, 70401>>, <<70459, 70460>>, <<70464, 70464>>,
       <<70502, 70508>>, <<70512, 70516>>, <<70712, 70719>>, <<70722, 70724>>,
       <<70726, 70726>>, <<70750, 70750>>, <<70835, 70840>>, <<70842, 70842>>,
       <<70847, 70848>>, <<70850, 70851>>, <<71090, 71093>>, <<71100, 71101>>,
       <<71103, 71104>>, <<71132, 71133>>, <<71219, 71226>>, <<71229, 71229>>,
       <<71231, 71232>>, <<71339, 71339>>, <<71341, 71341>>, <<71344, 71349>>,
       <<71351, 71351>>, <<71453, 71455>>, <<71458, 71461>>, <<71463, 71467>>,
       <<71727, 71735>>, <<71737, 71738>>, <<71995, 71996>>, <<71998, 71998>>,
       <<72003, 72003>>, <<72148, 72151>>, <<72154, 72155>>, <<72160, 72160>>,
       <<72193, 72202>>, <<72243, 72248>>, <<72251, 72254>>, <<72263, 72263>>,
       <<72273, 72278>>, <<72281, 72283>>, <<72330, 72342>>, <<72344, 72345>>,
       <<72752, 72758>>, <<72760, 72765>>, <<72767, 72767>>, <<72850, 72871>>,
       <<72874, 72880>>, <<72882, 72883>>, <<72885, 72886>>, <<73009, 73014>>,
       <<73018, 73018>>, <<73020, 73021>>, <<73023, 73029>>, <<73031, 73031>>,
       <<73104, 73105>>, <<73109, 73109>>, <<73111, 73111>>, <<73459, 73460>>,
       <<78896, 78904>>, <<92912, 92916>>, <<92976, 92982>>, <<92992, 92995>>,
       <<94031, 94031>>, <<94095, 94111>>, <<94176, 94177>>, <<94179, 94180>>,
       <<110576, 110579>>, <<110581, 110587>>, <<110589, 110590>>,
       <<113821, 113822>>, <<113824, 113827>>, <<118528, 118573>>,
       <<118576, 118598>>, <<119143, 119145>>, <<119155, 119170>>,
       <<119173, 119179>>, <<119210, 119213>>, <<119362, 119364>>,
       <<121344, 121398>>, <<121403, 121452>>, <<121461, 121461>>,
       <<121476, 121476>>, <<121499, 121503>>, <<121505, 121519>>,
       <<122880, 122886>>, <<122888, 122904>>, <<122907, 122913>>,
       <<122915, 122916>>, <<122918, 122922>>, <<123184, 123197>>,
       <<123566, 123566>>, <<123628, 123631>>, <<125136, 125142>>,
       <<125252, 125259>>, <<127995, 127999>>, <<917505, 917505>>,
       <<917536, 917631>>, <<917760, 917999>> >>

LowerRunsOf(ch) ==
    {k \in 1..Len(LowerRuns) : /\ LowerRuns[k][1] <= ch
                               /\ ch <= LowerRuns[k][2]
                               /\ (ch - LowerRuns[k][1]) % LowerRuns[k][3] = 0}

\* chr(ch).lower() of a single code point: U+0130 gives two code points.
LowerChar(ch) ==
    IF ch = 304 THEN <<105, 775>>
    ELSE IF LowerRunsOf(ch) # {}
    THEN <<ch + LowerRuns[CHOOSE k \in LowerRunsOf(ch) : TRUE][4]>>
    ELSE <<ch>>

\* U+03A3 at s[i] is a final sigma: the nearest code point before it that is
\* not case-ignorable is cased, and the nearest one after it, if any, is not.
FinalSigma(s, i) ==
    LET before == {j \in 1..(i - 1) : ~InRanges(s[j], CaseIgnorableRanges)}
        after  == {j \in (i + 1)..Len(s) : ~InRanges(s[j], CaseIgnorableRanges)}
    IN  /\ before # {}
        /\ InRanges(s[CHOOSE j \in before : \A h \in before : h <= j],
                    CasedRanges)
        /\ \/ after = {}
           \/ ~InRanges(s[CHOOSE j \in after : \A h \in after : j <= h],
                        CasedRanges)

RECURSIVE LowerFrom(_, _)
LowerFrom(s, i) ==
    IF i > Len(s) THEN <<>>
    ELSE (IF s[i] = 931
          THEN <<IF FinalSigma(s, i) THEN 962 ELSE 963>>
          ELSE LowerChar(s[i])) \o LowerFrom(s, i + 1)

\* str.lower()
Lower(s) == LowerFrom(s, 1)

\* str.replace(old, new) for single characters
Replace(s, old, new) == [i \in 1..Len(s) |-> IF s[i] = old THEN new ELSE s[i]]

\* dict.get(key, default)
Get(d, key, default) == IF key \in DOMAIN d THEN d[key] ELSE default

\* d[key] = value
Put(d, key, value) ==
    [k \in DOMAIN d \cup {key} |-> IF k = key THEN value ELSE d[k]]

EmptyDict == [k \in {} |-> None]

-----------------------------------------------------------------------------
(* SQLite: a text bound to a comparison with the INTEGER column id,         *)
(* AUTOINCREMENT, ORDER BY                                                  *)

\* The characters SQLite skips around a number: space, \t, \n, \v, \f, \r.
SqlSpace == {32} \cup (9..13)

DigitChars == 48..57

SignChars == {43, 45}

\* The number of leading elements of s that are in chars.
Span(s, chars) == Len(s) - Len(DropLeading(s, chars))

\* The exponent that the digits t give, after the digits that gave e:
\* `e = e<10000 ? (e*10 + (*z - '0')) : 10000` for every digit.  Leading
\* zeros leave e at 0; four more digits leave it below 10000, so that a
\* fifth is taken in and a sixth turns it to 10000, where it stays.
RECURSIVE SqlExponentValue(_, _)
SqlExponentValue(t, e) ==
    IF t = <<>> THEN e
    ELSE SqlExponentValue(Tail(t),
                          IF e < 10000 THEN 10 * e + (Head(t) - 48) ELSE 10000)

RECURSIVE Pow10(_)
Pow10(n) == IF n = 0 THEN 1 ELSE 10 * Pow10(n - 1)

\* The digits of a text of digits, as numbers.
DigitValues(s) == [k \in 1..Len(s) |-> s[k] - 48]

\* The text read as SQLite reads a number: blanks, a sign, digits, a point
\* and digits, an exponent with its sign and digits, blanks.  The operators
\* below read it part by part, SqlNumeral first, each handing the parts read
\* and the rest of the text to the next.  The outcome is a record: `valid`
\* tells whether the whole text is such a number; it then is
\* (-1)^neg * whole.frac * 10^exponent, whole and frac being its digits
\* before and after the point.
SqlRecord(valid, neg, whole, frac, exponent) ==
    [valid    |-> valid,
     neg      |-> neg,
     whole    |-> whole,
     frac     |-> frac,
     exponent |-> exponent]

\* t is what follows the sign of the exponent, or the text after the number
\* when there is no exponent.
SqlExponentDigits(neg, whole, frac, hasexp, eneg, t) ==
    LET digits == DropLeading(SubSeq(t, 1, Span(t, DigitChars)), {48})
        evalue == IF ~hasexp THEN 0
                  ELSE IF Len(digits) > 6 THEN 10000
                  ELSE SqlExponentValue(digits, 0)
    IN  SqlRecord(/\ Len(whole) + Len(frac) > 0
                  /\ IF hasexp
                     THEN t # <<>> /\ Span(t, DigitChars) = Len(t)
                     ELSE t = <<>>,
                  neg,
                  DigitValues(whole),
                  DigitValues(frac),
                  IF eneg THEN -evalue ELSE evalue)

\* t is what follows the "e" or "E", or the text after the number when there
\* is no exponent.
SqlExponentSign(neg, whole, frac, hasexp, t) ==
    SqlExponentDigits(neg, whole, frac, hasexp,
                      hasexp /\ t # <<>> /\ Head(t) = 45,
                      IF hasexp /\ t # <<>> /\ Head(t) \in SignChars
                      THEN Tail(t) ELSE t)

\* t is what follows the digits of the number.
SqlExponent(neg, whole, frac, t) ==
    SqlExponentSign(neg, whole, frac,
                    t # <<>> /\ Head(t) \in {69, 101},
                    IF t # <<>> /\ Head(t) \in {69, 101} THEN Tail(t) ELSE t)

\* t is what follows the point, or the digits before it when there is none.
SqlFraction(neg, whole, dotted, t) ==
    SqlExponent(neg, whole,
                IF dotted THEN SubSeq(t, 1, Span(t, DigitChars)) ELSE <<>>,
                IF dotted THEN SubSeq(t, Span(t, DigitChars) + 1, Len(t))
                ELSE t)

\* t is what follows the digits before the point.
SqlPoint(neg, whole, t) ==
    SqlFraction(neg, whole,
                t # <<>> /\ Head(t) = 46,
                IF t # <<>> /\ Head(t) = 46 THEN Tail(t) ELSE t)

\* t is what follows the sign.
SqlWhole(neg, t) ==
    SqlPoint(neg,
             SubSeq(t, 1, Span(t, DigitChars)),
             SubSeq(t, Span(t, DigitChars) + 1, Len(t)))

\* t is the text without the blanks around it.
SqlSign(t) ==
    SqlWhole(t # <<>> /\ Head(t) = 45,
             IF t # <<>> /\ Head(t) \in SignChars THEN Tail(t) ELSE t)

SqlNumeral(text) ==
    SqlSign(DropTrailing(DropLeading(text, SqlSpace), SqlSpace))

\* SQLite turns the number into a double (sqlite3AtoF) and the double into
\* an integer when it is whole.  The operators below follow it on numbers
\* written as sequences of decimal digits, most significant first.

\* The value of a sequence of digits.
RECURSIVE Number(_)
Number(digs) ==
    IF digs = <<>> THEN 0
    ELSE 10 * Number(SubSeq(digs, 1, Len(digs) - 1)) + digs[Len(digs)]

\* a < b, for sequences of digits of one length
RECURSIVE LexLess(_, _)
LexLess(a, b) ==
    IF a = <<>> THEN FALSE
    ELSE IF a[1] # b[1] THEN a[1] < b[1]
    ELSE LexLess(Tail(a), Tail(b))

\* a < b, for numbers written without leading zeros
NatLess(a, b) == Len(a) < Len(b) \/ (Len(a) = Len(b) /\ LexLess(a, b))

\* The position of the leading bit of i: 2^Log2(i) <= i < 2^(Log2(i) + 1).
RECURSIVE Log2(_)
Log2(i) == IF i < 2 THEN 0 ELSE 1 + Log2(i \div 2)

RECURSIVE IsPowerOf2(_)
IsPowerOf2(i) == i = 1 \/ (i % 2 = 0 /\ IsPowerOf2(i \div 2))

\* (LARGEST_INT64 - 9) / 10 = 922337203685477579: sqlite3AtoF takes digits
\* into its 64-bit significand while the significand is below this.
SignificandLimit == <<9, 2, 2, 3, 3, 7, 2, 0, 3, 6, 8, 5, 4, 7, 7, 5, 7, 9>>

\* The number of digits of digs that are taken into the significand, digs
\* being nonzero followed by the rest: every leading zero, the next 18 digits
\* (17 digits are below the limit) and one more if those 18 are below the
\* limit.
KeptOf(digs, nonzero) ==
    (Len(digs) - Len(nonzero))
        + (IF Len(nonzero) <= 18 THEN Len(nonzero)
           ELSE IF LexLess(SubSeq(nonzero, 1, 18), SignificandLimit) THEN 19
           ELSE 18)

Kept(digs) == KeptOf(digs, DropLeading(digs, {0}))

\* The first 19 digits after the point of 2^(k - 53) + 2^(k - 64)
\* = 2049 / 2^(64 - k), for k = -1, 0, ..., 29.  The quotient of the
\* significand by a power of ten is rounded to the 64 bits of a long double
\* and then to the 53 bits of a double: a number between 2^k and 2^(k + 1)
\* comes out as a double i of that range when it is no further from i than
\* this (2^(k - 53) is half the distance between two such doubles,
\* 2^(k - 64) half of that between two such long doubles; both roundings
\* take a number half-way to the even neighbour, which a whole i is).
ReachDigits ==
    << <<0, 0, 0, 0, 0, 0, 0, 0, 0, 0, 0, 0, 0, 0, 0, 0, 5, 5, 5>>,
       <<0, 0, 0, 0, 0, 0, 0, 0, 0, 0, 0, 0, 0, 0, 0, 1, 1, 1, 0>>,
       <<0, 0, 0, 0, 0, 0, 0, 0, 0, 0, 0, 0, 0, 0, 0, 2, 2, 2, 1>>,
       <<0, 0, 0, 0, 0, 0, 0, 0, 0, 0, 0, 0, 0, 0, 0, 4, 4, 4, 3>>,
       <<0, 0, 0, 0, 0, 0, 0, 0, 0, 0, 0, 0, 0, 0, 0, 8, 8, 8, 6>>,
       <<0, 0, 0, 0, 0, 0, 0, 0, 0, 0, 0, 0, 0, 0, 1, 7, 7, 7, 2>>,
       <<0, 0, 0, 0, 0, 0, 0, 0, 0, 0, 0, 0, 0, 0, 3, 5, 5, 4, 4>>,
       <<0, 0, 0, 0, 0, 0, 0, 0, 0, 0, 0, 0, 0, 0, 7, 1, 0, 8, 8>>,
       <<0, 0, 0, 0, 0, 0, 0, 0, 0, 0, 0, 0, 0, 1, 4, 2, 1, 7, 7>>,
       <<0, 0, 0, 0, 0, 0, 0, 0, 0, 0, 0, 0, 0, 2, 8, 4, 3, 5, 5>>,
       <<0, 0, 0, 0, 0, 0, 0, 0, 0, 0, 0, 0, 0, 5, 6, 8, 7, 1, 1>>,
       <<0, 0, 0, 0, 0, 0, 0, 0, 0, 0, 0, 0, 1, 1, 3, 7, 4, 2, 3>>,
       <<0, 0, 0, 0, 0, 0, 0, 0, 0, 0, 0, 0, 2, 2, 7, 4, 8, 4, 6>>,
       <<0, 0, 0, 0, 0, 0, 0, 0, 0, 0, 0, 0, 4, 5, 4, 9, 6, 9, 3>>,
       <<0, 0, 0, 0, 0, 0, 0, 0, 0, 0, 0, 0, 9, 0, 9, 9, 3, 8, 7>>,
       <<0, 0, 0, 0, 0, 0, 0, 0, 0, 0, 0, 1, 8, 1, 9, 8, 7, 7, 5>>,
       <<0, 0, 0, 0, 0, 0, 0, 0, 0, 0, 0, 3, 6, 3, 9, 7, 5, 5, 1>>,
       <<0, 0, 0, 0, 0, 0, 0, 0, 0, 0, 0, 7, 2, 7, 9, 5, 1, 0, 3>>,
       <<0, 0, 0, 0, 0, 0, 0, 0, 0, 0, 1, 4, 5, 5, 9, 0, 2, 0, 6>>,
       <<0, 0, 0, 0, 0, 0, 0, 0, 0, 0, 2, 9, 1, 1, 8, 0, 4, 1, 3>>,
       <<0, 0, 0, 0, 0, 0, 0, 0, 0, 0, 5, 8, 2, 3, 6, 0, 8, 2, 6>>,
       <<0, 0, 0, 0, 0, 0, 0, 0, 0, 1, 1, 6, 4, 7, 2, 1, 6, 5, 2>>,
       <<0, 0, 0, 0, 0, 0, 0, 0, 0, 2, 3, 2, 9, 4, 4, 3, 3, 0, 4>>,
       <<0, 0, 0, 0, 0, 0, 0, 0, 0, 4, 6, 5, 8, 8, 8, 6, 6, 0, 9>>,
       <<0, 0, 0, 0, 0, 0, 0, 0, 0, 9, 3, 1, 7, 7, 7, 3, 2, 1, 9>>,
       <<0, 0, 0, 0, 0, 0, 0, 0, 1, 8, 6, 3, 5, 5, 4, 6, 4, 3, 9>>,
       <<0, 0, 0, 0, 0, 0, 0, 0, 3, 7, 2, 7, 1, 0, 9, 2, 8, 7, 8>>,
       <<0, 0, 0, 0, 0, 0, 0, 0, 7, 4, 5, 4, 2, 1, 8, 5, 7, 5, 7>>,
       <<0, 0, 0, 0, 0, 0, 0, 1, 4, 9, 0, 8, 4, 3, 7, 1, 5, 1, 4>>,
       <<0, 0, 0, 0, 0, 0, 0, 2, 9, 8, 1, 6, 8, 7, 4, 3, 0, 2, 9>>,
       <<0, 0, 0, 0, 0, 0, 0, 5, 9, 6, 3, 3, 7, 4, 8, 6, 0, 5, 8>> >>

Reach(k) == ReachDigits[k + 2]

\* 0.f <= 0.w, for digits f and w after the point: f, the significand's, are
\* at most 19, of which w holds the first 19.
Within(f, w) == ~LexLess(SubSeq(w, 1, Len(f)), f)

\* The digits after the point of 1 - 0.f, the last digit of f not being 0.
Complement(f) ==
    [j \in 1..Len(f) |-> IF j = Len(f) THEN 10 - f[j] ELSE 9 - f[j]]

\* The integers of at most nine digits that the double of lo + 0.f is,
\* lo >= 0 and f not ending in 0: lo when it is not 0, or lo + 1, when the
\* number is within reach of it.  Below a power of two the doubles are twice
\* as dense.
Nearest(lo, f) ==
    {i \in {lo} : i >= 1 /\ Within(f, Reach(Log2(i)))}
        \cup {i \in {lo + 1} :
                 /\ i < Pow10(9)
                 /\ Within(Complement(f),
                           Reach(IF IsPowerOf2(i) THEN Log2(i) - 1 ELSE Log2(i)))}

\* The significands s, as they are when the exponent is 324, ..., 341, up to
\* which s / 10^exponent comes out as the double 0: about 2^(-1075), half the
\* least positive double, 2.4703282292062327...e-324; the last digits are
\* those of SQLite's arithmetic, which divides by 10^(exponent - 308) and
\* then by 1e308.
UnderflowLimit(m) ==
    SubSeq(<<2, 4, 7, 0, 3, 2, 8, 2, 2, 9, 2, 0, 6, 2, 3, 2, 9, 9>>, 1, m - 323)

\* The integers that the double of s / 10^m is, s not ending in 0, m > 0.
Fractional(s, m) ==
    IF m >= 342 THEN {0}
    ELSE IF m >= 324
    THEN IF NatLess(UnderflowLimit(m), s) THEN {} ELSE {0}
    ELSE IF m > Len(s) \/ Len(s) - m > 9 THEN {}
    ELSE Nearest(Number(SubSeq(s, 1, Len(s) - m)),
                 SubSeq(s, Len(s) - m + 1, Len(s)))

\* The integers of at most nine digits that the double of s * 10^e is,
\* e >= 0.  A significand below 2^53 is a double as it stands.
Whole(s, e) == IF Len(s) + e > 9 THEN {} ELSE {Number(s) * Pow10(e)}

\* The integers that the double of s / 10^m is, z of the last m digits of s
\* being zeros that are dropped.
Reduced(s, m, z) ==
    IF z = m THEN Whole(SubSeq(s, 1, Len(s) - z), 0)
    ELSE Fractional(SubSeq(s, 1, Len(s) - z), m - z)

\* The integers that the double of s * 10^e is, s without leading zeros.
Scaled(s, e) ==
    IF s = <<>> THEN {0}
    ELSE IF e >= 0 THEN Whole(s, e)
    ELSE Reduced(s, -e,
                 IF Len(s) - Len(DropTrailing(s, {0})) < -e
                 THEN Len(s) - Len(DropTrailing(s, {0})) ELSE -e)

\* The integers that the double of whole.frac * 10^exponent is, when kept
\* of the digits are taken into the significand: a digit before the point
\* that is not taken counts as a zero, one after the point is dropped.
Significand(whole, frac, exponent, kept) ==
    Scaled(DropLeading(SubSeq(whole \o frac, 1, kept), {0}),
           exponent + (Len(whole) - kept))

\* The ids of at most nine digits that equal a text parameter compared with
\* the INTEGER column id (applyNumericAffinity): the column's affinity turns
\* a text that is a number into the double nearest to it, which equals an id
\* when it is whole ("1.0", "1e0" and "1.0000000000000001" equal 1); any
\* other text stays text and equals no id.  The set holds one integer or
\* none.  AUTOINCREMENT gives the ids 1, 2, ...: the ids of the rows here
\* have at most nine digits, so that the set tells of every stored row
\* whether the text equals its id.
SqlInteger(text) ==
    LET n == SqlNumeral(text) IN
    IF ~n.valid THEN {}
    ELSE IF n.neg
    THEN {-i : i \in Significand(n.whole, n.frac, n.exponent,
                                 Kept(n.whole \o n.frac))}
    ELSE Significand(n.whole, n.frac, n.exponent, Kept(n.whole \o n.frac))

MaxOf(S) == IF S = {} THEN 0 ELSE CHOOSE m \in S : \A n \in S : n <= m

\* Mutant of NewRowid: a plain rowid, one more than the largest id stored now.
NewRowidReuse(rows, s) == MaxOf({r.id : r \in rows}) + 1

\* id INTEGER PRIMARY KEY AUTOINCREMENT: one more than the largest rowid the
\* table has ever held.
NewRowid(rows, s) == MaxOf({s} \cup {r.id : r \in rows}) + 1

\* Mutant of OrderByUpdatedDesc: the rows in the order of creation, last first.
RECURSIVE OrderByIdDesc(_)
OrderByIdDesc(rows) ==
    IF rows = {} THEN <<>>
    ELSE LET first == CHOOSE r \in rows : \A q \in rows : q.id <= r.id
         IN  <<first>> \o OrderByIdDesc(rows \ {first})

\* ORDER BY updated_at DESC over a rowid scan: ties stay in rowid order.
RECURSIVE OrderByUpdatedDesc(_)
OrderByUpdatedDesc(rows) ==
    IF rows = {} THEN <<>>
    ELSE LET first == CHOOSE r \in rows : \A q \in rows \ {r} :
                          \/ r.updated_at > q.updated_at
                          \/ r.updated_at = q.updated_at /\ r.id < q.id
         IN  <<first>> \o OrderByUpdatedDesc(rows \ {first})

\* SELECT * FROM writings WHERE category = ? ORDER BY updated_at DESC
SelectByCategory(rows, slug) ==
    OrderByUpdatedDesc({r \in rows : r.category = slug})

\* SELECT * FROM writings WHERE id = ? AND category = ?  (fetchone)
SelectForEdit(rows, edit_id, slug) ==
    LET ids == SqlInteger(edit_id) IN
    {r \in rows : r.id \in ids /\ r.category = slug}

\* Mutant of Update: WHERE id = ? alone.
UpdateById(rows, writing_id, slug, title, content, now) ==
    LET ids == SqlInteger(writing_id) IN
    {IF r.id \in ids
     THEN [r EXCEPT !.title = title, !.content = content, !.updated_at = now]
     ELSE r : r \in rows}

\* UPDATE writings SET title, content, updated_at WHERE id = ? AND category = ?
Update(rows, writing_id, slug, title, content, now) ==
    LET ids == SqlInteger(writing_id) IN
    {IF r.id \in ids /\ r.category = slug
     THEN [r EXCEPT !.title = title, !.content = content, !.updated_at = now]
     ELSE r : r \in rows}

\* INSERT INTO writings (category, title, content, created_at, updated_at)
Insert(rows, s, slug, title, content, now) ==
    rows \cup {[id |-> NewRowid(rows, s), category |-> slug, title |-> title,
                content |-> content, created_at |-> now, updated_at |-> now]}

\* 2^63 - 1, the largest integer of SQLite
MaxInt64 == <<9, 2, 2, 3, 3, 7, 2, 0, 3, 6, 8, 5, 4, 7, 7, 5, 8, 0, 7>>

\* A Python int that is not negative, such as the writing_id that the
\* converter of <int:writing_id> gives, is the sequence of its decimal
\* digits: 12 is <<1, 2>>.  Binding one above 2^63 - 1 to a statement raises
\* OverflowError.
Overflows(n) == NatLess(MaxInt64, n)

\* `id = ?` for a row id and a Python int that SQLite takes
IntEquals(id, n) == Len(n) <= 9 /\ Number(n) = id

\* Mutant of Delete: WHERE id = ? alone.
DeleteById(rows, writing_id, slug) ==
    {r \in rows : ~IntEquals(r.id, writing_id)}

\* DELETE FROM writings WHERE id = ? AND category = ?
Delete(rows, writing_id, slug) ==
    {r \in rows : ~(IntEquals(r.id, writing_id) /\ r.category = slug)}

\* SELECT * FROM writings WHERE id = ?  (fetchone)
SelectById(rows, writing_id) == {r \in rows : IntEquals(r.id, writing_id)}


-----------------------------------------------------------------------------
(* Requests and responses *)

Request(c, endpoint, method, view_args, args, form) ==
    [client |-> c, endpoint |-> endpoint, method |-> method,
     view_args |-> view_args, args |-> args, form |-> form]

Response(status, location, body) ==
    [status |-> status, location |-> location, body |-> body]

\* What a request in flight holds for its response while it has none.
NoResponse == Response(0, EmptyDict, EmptyDict)

\* url_for(endpoint, **values)
url_for(endpoint, values) == [endpoint |-> endpoint, values |-> values]

redirect(location) == Response(302, location, EmptyDict)

render_template(template, context) ==
    Response(200, EmptyDict, [template |-> template, context |-> context])

abort(code) == Response(code, EmptyDict, EmptyDict)

\* An exception that no handler catches: with debug=True (line 291) it goes
\* to the debugger, which answers 500.
Raised == Response(500, EmptyDict, EmptyDict)

send_file(download_name) ==
    Response(200, EmptyDict, [download_name |-> download_name])

\* A request as the client sends it, with the cookie the client holds.  pc is
\* the point its handler has reached: "start", "view" when pin_required has
\* let it through, "save" and "list" within category_view, "fetchone" and
\* "fetchall" when a SELECT has found a row that the cursor has not given
\* yet, "commit" when its UPDATE, INSERT or DELETE is made and not committed,
\* "done" when the response is made.  session is the handler's copy of the
\* session and modified tells whether the handler has written to it; busy
\* is the time since which its connection waits for a lock of the database;
\* txn holds the table and the sequence as its open transaction leaves them;
\* editing, rows and row are the results of its SELECTs.
InFlight(req, cookie) ==
    [request  |-> req,
     pc       |-> "start",
     session  |-> cookie,
     modified |-> FALSE,
     now      |-> None,
     busy     |-> None,
     txn      |-> {},
     editing  |-> {},
     rows     |-> <<>>,
     row      |-> {},
     response |-> NoResponse]

\* The handler of p returns response.
Return(p, response) == [p EXCEPT !.pc = "done", !.response = response]

\* The request in flight p becomes q.
Step(p, q) == inflight' = (inflight (-) SetToBag({p})) (+) SetToBag({q})

\* The requests in flight
Records == BagToSet(inflight)

-----------------------------------------------------------------------------
(* The locks of the database file.  Each request opens a connection of its  *)
(* own (get_connection); sqlite3 begins a transaction before an UPDATE, an  *)
(* INSERT or a DELETE and ends it at conn.commit().                         *)

\* sqlite3.connect(DB_PATH) leaves the timeout at its default: a connection
\* that finds the database locked waits for 5 seconds, then raises
\* OperationalError ("database is locked").
SqliteTimeout == 5

\* A connection holds the SHARED lock: its SELECT has found a row and the
\* cursor has not been read to its end.
Shared == \E p \in Records : p.pc \in {"fetchone", "fetchall"}

\* A connection holds the RESERVED lock: its transaction is open.
Reserved == unclosed \/ \E p \in Records : p.pc = "commit"

\* A connection holds the PENDING lock: its commit waits for the readers,
\* or has given up and left the transaction open.
Pending == unclosed \/ \E p \in Records : p.pc = "commit" /\ p.busy # None

\* The connection of p can have the lock its next call needs: conn.commit()
\* the EXCLUSIVE lock, when no other connection reads; an UPDATE, an INSERT
\* or a DELETE the RESERVED lock, when no other transaction is open; a
\* SELECT the SHARED lock, when no commit is pending.
Available(p) ==
    IF p.pc = "commit" THEN ~Shared
    ELSE IF p.request.method = "POST" THEN ~Reserved
    ELSE ~Pending

\* The connection of p has waited longer than the timeout for a lock that
\* is still held: it raises before the lock is given up.
Overdue ==
    \E p \in Records :
        /\ p.busy # None
        /\ clock - p.busy > SqliteTimeout
        /\ ~Available(p)

\* The call of p that needs a lock can take a step: it has the lock, it
\* begins to wait, or it has waited for the timeout.
Ready(p) ==
    \/ Available(p)
    \/ p.busy = None
    \/ clock - p.busy >= SqliteTimeout

\* cur.execute(...) or conn.commit() of p, which leaves p as q when it has
\* the lock: otherwise p begins to wait, or raises when it has waited.
Execute(p, q) ==
    IF Available(p) THEN [q EXCEPT !.busy = None]
    ELSE IF p.busy = None THEN [p EXCEPT !.busy = clock]
    ELSE Return([p EXCEPT !.busy = None], Raised)

-----------------------------------------------------------------------------
(* The access gate *)

\* `not session.get("authorized")`
Authorized(s) == Get(s, "authorized", FALSE) = TRUE

\* Mutant of Expired: the elapsed time is never looked at.
ExpiredNoTimeout(s, now) ==
    LET last_active == Get(s, "last_active", None) IN
    last_active = None \/ last_active = 0

\* `not last_active or (now - last_active) > INACTIVITY_TIMEOUT`
Expired(s, now) ==
    LET last_active == Get(s, "last_active", None) IN
    \/ last_active = None
    \/ last_active = 0
    \/ (now - last_active) > INACTIVITY_TIMEOUT

\* The wrapper of pin_required up to the call of the wrapped handler, on the
\* session s when time.time() is now: whether the request is let through,
\* the session it leaves, whether it has written to the session and, when
\* the request is not let through, where it is sent.
wrapper(s, now) ==
    IF ~Authorized(s)
    THEN [pass |-> FALSE, session |-> s, modified |-> FALSE,
          location |-> url_for("pin", EmptyDict)]
    ELSE IF Expired(s, now)
    THEN [pass |-> FALSE, session |-> EmptyDict, modified |-> TRUE,
          location |-> url_for("pin", [expired |-> 1])]
    ELSE [pass |-> TRUE, session |-> Put(s, "last_active", now),
          modified |-> TRUE, location |-> EmptyDict]

\* The routes under @pin_required
Protected == {"home", "category_view", "download_text", "delete_text"}

-----------------------------------------------------------------------------
(* Handlers *)

\* A client sends a request.
Send(req) ==
    /\ inflight' = inflight (+) SetToBag({InFlight(req, session[req.client])})
    /\ UNCHANGED <<unclosed, clock, utcoffset, PIN_CODE, session, writings, seq, issued,
                   pin_time, allowed, refused>>

\* GET /
welcome(p) ==
    /\ p.pc = "start"
    /\ p.request.endpoint = "welcome"
    /\ Step(p, Return(p, render_template("welcome.html", EmptyDict)))
    /\ UNCHANGED <<unclosed, clock, utcoffset, PIN_CODE, session, writings, seq, issued,
                   pin_time, allowed, refused>>

\* `if request.args.get("expired")` / `if writing_id:` / `if edit_id:` on the
\* value of .get(key)
Given(d, key) == key \in DOMAIN d /\ d[key] # <<>>

\* `entered == PIN_CODE`
PinAccepted(entered) == entered = PIN_CODE

\* GET and POST /pin
pin(p) ==
    LET req     == p.request
        c       == req.client
        entered == Get(req.form, "pin", <<>>)
    IN  /\ p.pc = "start"
        /\ req.endpoint = "pin"
        /\ IF req.method = "POST" /\ PinAccepted(entered)
           THEN /\ Step(p, [Return(p, redirect(url_for("home", EmptyDict)))
                               EXCEPT !.session =
                                          Put(Put(@, "authorized", TRUE),
                                              "last_active", clock),
                                      !.modified = TRUE])
                /\ pin_time' = [pin_time EXCEPT ![c] = clock]
                /\ allowed' = [allowed EXCEPT ![c] = None]
                /\ refused' = [refused EXCEPT ![c] = FALSE]
           ELSE /\ Step(p, Return(p, render_template("pin.html",
                              [error |-> IF req.method = "POST" THEN "incorrecto"
                                         ELSE IF Given(req.args, "expired")
                                         THEN "inactividad"
                                         ELSE "None"])))
                /\ UNCHANGED <<unclosed, pin_time, allowed, refused>>
        /\ UNCHANGED <<unclosed, clock, utcoffset, PIN_CODE, session, writings, seq,
                       issued>>

\* The wrapper of pin_required, for a request to a protected route
pin_required(p) ==
    LET c    == p.request.client
        gate == wrapper(p.session, clock)
    IN  /\ p.pc = "start"
        /\ p.request.endpoint \in Protected
        /\ Step(p, IF gate.pass
                   THEN [p EXCEPT !.pc = "view",
                                  !.session = gate.session,
                                  !.modified = gate.modified]
                   ELSE [Return(p, redirect(gate.location))
                            EXCEPT !.session = gate.session,
                                   !.modified = gate.modified])
        /\ allowed' = IF gate.pass THEN [allowed EXCEPT ![c] = clock]
                      ELSE allowed
        /\ refused' = IF ~gate.pass /\ gate.modified
                      THEN [refused EXCEPT ![c] = TRUE]
                      ELSE refused
        /\ UNCHANGED <<unclosed, clock, utcoffset, PIN_CODE, session, writings, seq,
                       issued, pin_time>>

\* GET /inicio
home(p) ==
    /\ p.pc = "view"
    /\ p.request.endpoint = "home"
    /\ Step(p, Return(p, render_template("home.html", EmptyDict)))
    /\ UNCHANGED <<unclosed, clock, utcoffset, PIN_CODE, session, writings, seq, issued,
                   pin_time, allowed, refused>>

\* Mutant of FormTitle: the title is not stripped.
FormTitleUnstripped(form) ==
    LET title == Get(form, "title", <<>>) IN
    IF title = <<>> THEN SinTitulo ELSE title

\* `request.form.get("title", "").strip() or "Sin título"`
FormTitle(form) ==
    LET title == Strip(Get(form, "title", <<>>)) IN
    IF title = <<>> THEN SinTitulo ELSE title

\* `request.form.get("content", "").strip()`
FormContent(form) == Strip(Get(form, "content", <<>>))

\* Mutant of KnownCategory: the slug is not checked.
KnownCategoryAny(slug) == TRUE

\* `if slug not in CATEGORIES: abort(404)`
KnownCategory(slug) == slug \in CATEGORIES

\* `datetime.now().isoformat(timespec="seconds")` when time.time() is t: the
\* local time in whole seconds.  The code stores it as the text
\* YYYY-MM-DDTHH:MM:SS, and two such texts compare as these numbers do.
LocalTime(t) == t + utcoffset

\* The context of category.html
Listing(slug, rows, editing) ==
    render_template("category.html",
                    [slug |-> slug, writings |-> rows, editing |-> editing])

\* The list SELECT of p, made with the lock: an empty result ends the
\* statement, and the response is made; otherwise the cursor holds the rows.
ListSelect(p) ==
    LET slug == p.request.view_args.slug
        rows == SelectByCategory(writings, slug)
    IN  IF rows = <<>> THEN Return(p, Listing(slug, rows, p.editing))
        ELSE [p EXCEPT !.pc = "fetchall", !.rows = rows]

\* /categoria/<slug>, from the call of the handler: the 404 check; for a POST
\* the form and datetime.now(); for a GET with an edit_id the execute of the
\* first SELECT, and without one the execute of the SELECT of the list.
category_view(p) ==
    LET req  == p.request
        slug == req.view_args.slug
        row  == SelectForEdit(writings, req.args["edit_id"], slug)
    IN  /\ p.pc = "view"
        /\ req.endpoint = "category_view"
        /\ IF ~KnownCategory(slug) THEN Step(p, Return(p, abort(404)))
           ELSE IF req.method = "POST"
           THEN Step(p, [p EXCEPT !.pc = "save", !.now = LocalTime(clock)])
           ELSE /\ Ready(p)
                /\ Step(p, Execute(p,
                       IF ~Given(req.args, "edit_id") THEN ListSelect(p)
                       ELSE [p EXCEPT !.pc = IF row = {} THEN "list"
                                             ELSE "fetchone",
                                      !.editing = row]))
        /\ UNCHANGED <<clock, utcoffset, PIN_CODE, session, writings, seq,
                       unclosed, issued, pin_time, allowed, refused>>

\* POST /categoria/<slug>: the execute of the UPDATE or of the INSERT, which
\* opens the transaction
category_view_save(p) ==
    LET req  == p.request
        slug == req.view_args.slug
        form == req.form
        txn  == IF Given(form, "id")
                THEN [writings |-> Update(writings, form["id"], slug,
                                          FormTitle(form), FormContent(form),
                                          p.now),
                      seq      |-> seq]
                ELSE [writings |-> Insert(writings, seq, slug, FormTitle(form),
                                          FormContent(form), p.now),
                      seq      |-> NewRowid(writings, seq)]
    IN  /\ p.pc = "save"
        /\ Ready(p)
        /\ Step(p, Execute(p, [p EXCEPT !.pc = "commit", !.txn = {txn}]))
        /\ UNCHANGED <<clock, utcoffset, PIN_CODE, session, writings, seq,
                       unclosed, issued, pin_time, allowed, refused>>

\* GET /categoria/<slug>?edit_id=...: the execute of the SELECT of the list
category_view_list(p) ==
    /\ p.pc = "list"
    /\ Ready(p)
    /\ Step(p, Execute(p, ListSelect(p)))
    /\ UNCHANGED <<clock, utcoffset, PIN_CODE, session, writings, seq,
                   unclosed, issued, pin_time, allowed, refused>>

\* Mutant of SafeTitle: the backslash is left in.
SafeTitleKeepsBackslash(title) ==
    Replace(Replace(Lower(title), 32, 95), 47, 95)

\* The `safe_title` of download_text: " ", "/" and "\" become "_"
SafeTitle(title) ==
    Replace(Replace(Replace(Lower(title), 32, 95), 47, 95), 92, 95)

\* download_name=f"{safe_title}.pdf", with `title = row["title"] or "sin_titulo"`
DownloadName(row_title) ==
    SafeTitle(IF row_title = <<>> THEN sin_titulo ELSE row_title)
        \o <<46, 112, 100, 102>>

\* GET /texto/<int:writing_id>/descargar, from the call of the handler: the
\* execute of the SELECT, and the 404 when it finds no row
download_text(p) ==
    LET writing_id == p.request.view_args.writing_id
        row        == SelectById(writings, writing_id)
    IN  /\ p.pc = "view"
        /\ p.request.endpoint = "download_text"
        /\ IF Overflows(writing_id) THEN Step(p, Return(p, Raised))
           ELSE /\ Ready(p)
                /\ Step(p, Execute(p,
                       IF row = {} THEN Return(p, abort(404))
                       ELSE [p EXCEPT !.pc = "fetchone", !.row = row]))
        /\ UNCHANGED <<clock, utcoffset, PIN_CODE, session, writings, seq,
                       unclosed, issued, pin_time, allowed, refused>>

\* POST /texto/<int:writing_id>/borrar, from the call of the handler: the 400
\* check and the execute of the DELETE, which opens the transaction
delete_text(p) ==
    LET writing_id == p.request.view_args.writing_id
        form       == p.request.form
        txn        == [writings |-> Delete(writings, writing_id, form["slug"]),
                       seq      |-> seq]
    IN  /\ p.pc = "view"
        /\ p.request.endpoint = "delete_text"
        /\ IF "slug" \notin DOMAIN form \/ form["slug"] \notin CATEGORIES
           THEN Step(p, Return(p, abort(400)))
           ELSE IF Overflows(writing_id) THEN Step(p, Return(p, Raised))
           ELSE /\ Ready(p)
                /\ Step(p, Execute(p, [p EXCEPT !.pc = "commit",
                                                !.txn = {txn}]))
        /\ UNCHANGED <<clock, utcoffset, PIN_CODE, session, writings, seq,
                       unclosed, issued, pin_time, allowed, refused>>

\* cur.fetchone(): the cursor gives the row that the SELECT found and comes
\* to its end, which gives up the lock; download_text then makes the
\* response.
fetchone(p) ==
    /\ p.pc = "fetchone"
    /\ ~Overdue
    /\ Step(p, IF p.request.endpoint = "download_text"
               THEN Return(p, send_file(
                        DownloadName((CHOOSE r \in p.row : TRUE).title)))
               ELSE [p EXCEPT !.pc = "list"])
    /\ UNCHANGED <<clock, utcoffset, PIN_CODE, session, writings, seq,
                   unclosed, issued, pin_time, allowed, refused>>

\* cur.fetchall(): the cursor gives the rows of the list and comes to its
\* end, which gives up the lock; category_view then makes the response.
fetchall(p) ==
    /\ p.pc = "fetchall"
    /\ ~Overdue
    /\ Step(p, Return(p, Listing(p.request.view_args.slug, p.rows, p.editing)))
    /\ UNCHANGED <<clock, utcoffset, PIN_CODE, session, writings, seq,
                   unclosed, issued, pin_time, allowed, refused>>

\* conn.commit(), conn.close() and the redirect of category_view and of
\* delete_text: the transaction of p becomes the table; when the commit has
\* waited in vain for the readers it raises, and the transaction stays open.
commit(p) ==
    LET slug == IF p.request.endpoint = "delete_text"
                THEN p.request.form["slug"]
                ELSE p.request.view_args.slug
        txn  == CHOOSE x \in p.txn : TRUE
    IN  /\ p.pc = "commit"
        /\ Ready(p)
        /\ Step(p, Execute(p, Return([p EXCEPT !.txn = {}],
                       redirect(url_for("category_view", [slug |-> slug])))))
        /\ IF Available(p)
           THEN /\ ~Overdue
                /\ writings' = txn.writings
                /\ seq' = txn.seq
                /\ issued' = issued \cup {r.id : r \in txn.writings \ writings}
                /\ UNCHANGED unclosed
           ELSE /\ unclosed' = IF p.busy = None THEN unclosed ELSE TRUE
                /\ UNCHANGED <<writings, seq, issued>>
        /\ UNCHANGED <<clock, utcoffset, PIN_CODE, session, pin_time, allowed,
                       refused>>

\* The interpreter drops the connection that a failed commit left open: its
\* transaction is rolled back and its locks are given up.
close ==
    /\ unclosed
    /\ ~Overdue
    /\ unclosed' = FALSE
    /\ UNCHANGED <<clock, utcoffset, PIN_CODE, session, writings, seq,
                   inflight, issued, pin_time, allowed, refused>>

\* Flask saves the session with the response when the handler has written to
\* it; the debugger's response to an exception is not Flask's and carries no
\* session.
SavesSession(p) == p.modified /\ p.response.status # 500

\* The client gets the response of p, and with it the handler's copy of the
\* session if it is saved: an empty one deletes the cookie.
Answer(p) ==
    /\ p.pc = "done"
    /\ inflight' = inflight (-) SetToBag({p})
    /\ session' = IF SavesSession(p)
                  THEN [session EXCEPT ![p.request.client] = p.session]
                  ELSE session
    /\ refused' = IF p.request.endpoint = "pin" /\ p.response.status = 302
                  THEN [refused EXCEPT ![p.request.client] = FALSE]
                  ELSE refused
    /\ UNCHANGED <<unclosed, clock, utcoffset, PIN_CODE, writings, seq, issued, pin_time,
                   allowed>>

\* Time passes.
Tick(d) ==
    /\ clock' = clock + d
    /\ UNCHANGED <<unclosed, utcoffset, PIN_CODE, session, writings, seq, inflight,
                   issued, pin_time, allowed, refused>>

\* The host's zone changes its offset: daylight saving begins or ends.
ZoneShift(offset) ==
    /\ offset # utcoffset
    /\ utcoffset' = offset
    /\ UNCHANGED <<unclosed, clock, PIN_CODE, session, writings, seq, inflight, issued,
                   pin_time, allowed, refused>>

-----------------------------------------------------------------------------
(* The portal after start-up *)

StartTime == 1000

Clients == {"c1", "c2"}

\* The offsets of a zone that keeps daylight saving: 0 in summer, an hour
\* less in winter.
UtcOffsets == {0, -3600}

\* The portal started with code as its PIN.
InitWith(code) ==
    /\ clock = StartTime
    /\ utcoffset = 0
    /\ PIN_CODE = code
    /\ session = [c \in Clients |-> EmptyDict]
    /\ writings = {}
    /\ seq = 0
    /\ inflight = EmptyBag
    /\ unclosed = FALSE
    /\ issued = {}
    /\ pin_time = [c \in Clients |-> None]
    /\ allowed = [c \in Clients |-> None]
    /\ refused = [c \in Clients |-> FALSE]

Init == InitWith(DefaultPin)

Elapsed == clock - StartTime

\* The instants at which requests are handled after start-up: the end of
\* each of k windows and a second later.
Instants(window, k) == {StartTime + i * window + j : i \in 1..k, j \in 0..1}

WrongPin == <<48, 48, 48, 48>>

\* " A/b\r"
SomeTitle == <<32, 65, 47, 98, 13>>

\* "x\r\n"
SomeContent == <<120, 13, 10>>

PinPost(c, form) == Request(c, "pin", "POST", EmptyDict, EmptyDict, form)

PinGet(c, args) == Request(c, "pin", "GET", EmptyDict, args, EmptyDict)

PlainGet(c, endpoint) == Request(c, endpoint, "GET", EmptyDict, EmptyDict, EmptyDict)

CategoryGet(c, slug, args) ==
    Request(c, "category_view", "GET", [slug |-> slug], args, EmptyDict)

CategoryPost(c, slug, form) ==
    Request(c, "category_view", "POST", [slug |-> slug], EmptyDict, form)

DeletePost(c, writing_id, form) ==
    Request(c, "delete_text", "POST", [writing_id |-> writing_id], EmptyDict,
            form)

Download(c, writing_id) ==
    Request(c, "download_text", "GET", [writing_id |-> writing_id], EmptyDict,
            EmptyDict)

\* The server handles each request in a thread of its own; the model has two.
Threads == {"t1", "t2"}

Free == BagCardinality(inflight) < Cardinality(Threads)

\* A request that INSERTs if it reaches the statement
Inserts(req) ==
    /\ req.endpoint = "category_view"
    /\ req.method = "POST"
    /\ ~Given(req.form, "id")

\* The INSERTs made and those that the requests in flight may make are fewer
\* than max.
MayInsert(max) ==
    seq + BagCardinality([p \in {q \in Records : Inserts(q.request)} |->
                             inflight[p]]) < max

-----------------------------------------------------------------------------
(* Spec: one client saves writings, new ones and stored ones, under two     *)
(* categories; the clock advances by the lock timeout.                      *)

MaxId == 2        \* INSERTs a behaviour makes
MaxTicks == 1     \* lock timeouts that pass

\* A new writing with a title of "\r" and a no-break space; a new writing
\* with a title and a content; a save with id "1"; one with id
\* "\r+1.00000000000000001"; one with id "x".
NewBlank == [id |-> <<>>, title |-> <<13, 160>>]

NewTitled == [title |-> SomeTitle, content |-> SomeContent]

SaveOne == [id |-> <<49>>, title |-> SomeTitle]

SaveRounded ==
    [id |-> <<13, 43, 49, 46, 48, 48, 48, 48, 48, 48, 48, 48, 48, 48, 48, 48,
              48, 48, 48, 48, 49>>]

SaveNoDigit == [id |-> <<120>>]

Posts ==
    { <<"poemas", NewTitled>>, <<"poemas", SaveOne>>, <<"cuentos", SaveOne>>,
      <<"cuentos", SaveRounded>>, <<"poemas", SaveNoDigit>> }

Next ==
    \/ /\ Free
       /\ ~Authorized(session["c1"])
       /\ Send(PinPost("c1", [pin |-> DefaultPin]))
    \/ \E post \in Posts :
          /\ Free
          /\ Given(post[2], "id") \/ MayInsert(MaxId)
          /\ Send(CategoryPost("c1", post[1], post[2]))
    \/ \E p \in Records : pin(p)
    \/ \E p \in Records : pin_required(p)
    \/ \E p \in Records : category_view(p)
    \/ \E p \in Records : category_view_save(p)
    \/ \E p \in Records : Answer(p)
    \/ \E p \in Records : commit(p)
    \/ Elapsed < MaxTicks * SqliteTimeout /\ Tick(SqliteTimeout)

Spec == Init /\ [][Next]_vars

-----------------------------------------------------------------------------
(* SpecTable: one client saves new writings, under a category and under an  *)
(* unknown one, and deletes: the first writing under its category, under    *)
(* another, under an unknown one and under none, and the writing 2^63; the  *)
(* clock advances by the lock timeout.                                      *)

MaxTableId == 2     \* INSERTs a behaviour makes
MaxTableTicks == 1  \* lock timeouts that pass

TablePosts ==
    { <<"poemas", NewBlank>>, <<"poemas", NewTitled>>, <<"otros", NewTitled>> }

\* 2^63
TwoTo63 == <<9, 2, 2, 3, 3, 7, 2, 0, 3, 6, 8, 5, 4, 7, 7, 5, 8, 0, 8>>

Deletes ==
    { <<<<1>>, [slug |-> "poemas"]>>, <<<<1>>, [slug |-> "cuentos"]>>,
      <<<<1>>, [slug |-> "otros"]>>, <<<<1>>, EmptyDict>>,
      <<TwoTo63, [slug |-> "poemas"]>>, <<TwoTo63, EmptyDict>> }

NextTable ==
    \/ /\ Free
       /\ ~Authorized(session["c1"])
       /\ Send(PinPost("c1", [pin |-> DefaultPin]))
    \/ \E post \in TablePosts :
          /\ Free
          /\ MayInsert(MaxTableId)
          /\ Send(CategoryPost("c1", post[1], post[2]))
    \/ \E d \in Deletes :
          /\ Free
          /\ Send(DeletePost("c1", d[1], d[2]))
    \/ \E p \in Records : pin(p)
    \/ \E p \in Records : pin_required(p)
    \/ \E p \in Records : category_view(p)
    \/ \E p \in Records : category_view_save(p)
    \/ \E p \in Records : delete_text(p)
    \/ \E p \in Records : Answer(p)
    \/ \E p \in Records : commit(p)
    \/ Elapsed < MaxTableTicks * SqliteTimeout /\ Tick(SqliteTimeout)

SpecTable == Init /\ [][NextTable]_vars

-----------------------------------------------------------------------------
(* SpecList: one client saves writings, deletes the first and lists a       *)
(* category, with and without an edit_id, while the zone changes its        *)
(* offset.                                                                  *)

MaxListId == 2        \* INSERTs a behaviour makes
MaxListTicks == 1     \* lock timeouts that pass

\* a new writing under either category
ListPosts == { <<"poemas", EmptyDict>>, <<"cuentos", EmptyDict>> }

\* edit_id "1e0"
EditArgs == {EmptyDict, [edit_id |-> <<49, 101, 48>>]}

NextList ==
    \/ /\ Free
       /\ ~Authorized(session["c1"])
       /\ Send(PinPost("c1", [pin |-> DefaultPin]))
    \/ \E a \in EditArgs :
          /\ Free
          /\ Send(CategoryGet("c1", "poemas", a))
    \/ \E post \in ListPosts :
          /\ Free
          /\ Given(post[2], "id") \/ MayInsert(MaxListId)
          /\ Send(CategoryPost("c1", post[1], post[2]))
    \/ /\ Free
       /\ Send(DeletePost("c1", <<1>>, [slug |-> "poemas"]))
    \/ \E p \in Records : pin(p)
    \/ \E p \in Records : pin_required(p)
    \/ \E p \in Records : category_view(p)
    \/ \E p \in Records : category_view_save(p)
    \/ \E p \in Records : category_view_list(p)
    \/ \E p \in Records : delete_text(p)
    \/ \E p \in Records : fetchone(p)
    \/ \E p \in Records : fetchall(p)
    \/ \E p \in Records : commit(p)
    \/ close
    \/ \E p \in Records : Answer(p)
    \/ \E o \in UtcOffsets : inflight = EmptyBag /\ o < utcoffset /\ ZoneShift(o)
    \/ /\ Elapsed < MaxListTicks * SqliteTimeout
       /\ \E p \in Records : p.busy # None
       /\ Tick(SqliteTimeout)

SpecList == Init /\ [][NextList]_vars

-----------------------------------------------------------------------------
(* SpecGate: a client that enters the PIN, saves a new writing and deletes  *)
(* it and a second one that deletes without a PIN, while the clock comes to *)
(* the end of the inactivity window and a second past it.                   *)

MaxGateId == 1        \* INSERTs a behaviour makes
MaxGateTicks == 1     \* inactivity windows that pass

NextGate ==
    \/ /\ Free
       /\ Send(PinPost("c1", [pin |-> DefaultPin]))
    \/ /\ Free
       /\ MayInsert(MaxGateId)
       /\ Send(CategoryPost("c1", "escritos", EmptyDict))
    \/ \E c \in Clients :
          /\ Free
          /\ Send(DeletePost(c, <<1>>, [slug |-> "escritos"]))
    \/ \E p \in Records : pin(p)
    \/ \E p \in Records : pin_required(p)
    \/ \E p \in Records : category_view(p)
    \/ \E p \in Records : category_view_save(p)
    \/ \E p \in Records : delete_text(p)
    \/ \E p \in Records : commit(p)
    \/ \E p \in Records : Answer(p)
    \/ \E t \in Instants(INACTIVITY_TIMEOUT, MaxGateTicks) : t > clock /\ Tick(t - clock)

SpecGate == Init /\ [][NextGate]_vars

-----------------------------------------------------------------------------
(* SpecPin: the portal started with the default PIN or with an empty one; a *)
(* client enters PINs and opens the PIN prompt, the welcome and the home    *)
(* page, a second one opens the home page, while the clock comes to the end *)
(* of each inactivity window and a second past it.                          *)

MaxPinTicks == 2      \* inactivity windows that pass

\* RYAN_PORTAL_PIN unset, or set to the empty text
PinCodes == {DefaultPin, <<>>}

InitPin == \E code \in PinCodes : InitWith(code)

PinForms == {EmptyDict, [pin |-> DefaultPin], [pin |-> WrongPin]}

\* expired "1"
PinArgs == {EmptyDict, [expired |-> <<49>>]}

NextPin ==
    \/ \E f \in PinForms :
          /\ Free
          /\ Send(PinPost("c1", f))
    \/ \E a \in PinArgs :
          /\ Free
          /\ Send(PinGet("c1", a))
    \/ /\ Free
       /\ Send(PlainGet("c1", "welcome"))
    \/ \E c \in Clients :
          /\ Free
          /\ Send(PlainGet(c, "home"))
    \/ \E p \in Records : welcome(p)
    \/ \E p \in Records : pin(p)
    \/ \E p \in Records : pin_required(p)
    \/ \E p \in Records : home(p)
    \/ \E p \in Records : Answer(p)
    \/ \E t \in Instants(INACTIVITY_TIMEOUT, MaxPinTicks) : t > clock /\ Tick(t - clock)

SpecPin == InitPin /\ [][NextPin]_vars

-----------------------------------------------------------------------------
(* SpecExport: one client, one request at a time, stores one writing under  *)
(* any short title and downloads it, or one that is not stored.             *)

MaxLen == 3       \* characters of a submitted title

\* "A", "b", "Í", " ", "/", "\", "_", capital sigma, capital I with dot
\* above, and the double-struck capital C, which has no lowercase form
Alphabet == {65, 98, 205, 32, 47, 92, 95, 931, 304, 8450}

RECURSIVE Texts(_)
Texts(n) ==
    IF n = 0 THEN {<<>>}
    ELSE Texts(n - 1) \cup {Append(t, ch) : t \in Texts(n - 1), ch \in Alphabet}

ExportForms == {EmptyDict} \cup {[title |-> t] : t \in Texts(MaxLen)}

\* The writing_ids 1, 2 and 2^63
ExportIds == {<<1>>, <<2>>, TwoTo63}

NextExport ==
    \/ /\ inflight = EmptyBag
       /\ ~Authorized(session["c1"])
       /\ Send(PinPost("c1", [pin |-> DefaultPin]))
    \/ \E f \in ExportForms :
          /\ inflight = EmptyBag
          /\ writings = {}
          /\ Authorized(session["c1"])
          /\ Send(CategoryPost("c1", "poemas", f))
    \/ \E i \in ExportIds :
          /\ inflight = EmptyBag
          /\ Authorized(session["c1"])
          /\ Send(Download("c1", i))
    \/ \E p \in Records : pin(p)
    \/ \E p \in Records : pin_required(p)
    \/ \E p \in Records : category_view(p)
    \/ \E p \in Records : category_view_save(p)
    \/ \E p \in Records : download_text(p)
    \/ \E p \in Records : fetchone(p)
    \/ \E p \in Records : commit(p)
    \/ \E p \in Records : Answer(p)

SpecExport == Init /\ [][NextExport]_vars

-----------------------------------------------------------------------------
(* Properties.  A step of the handler of a request replaces its record in   *)
(* inflight: Moves(p, q) tells the record before and after.  A record whose *)
(* pc is "done" holds the response that the client is about to get.         *)

\* The requests in flight after the step
After == BagToSet(inflight')

Arrives(q) == CopiesIn(q, inflight') > CopiesIn(q, inflight)

Leaves(p) == CopiesIn(p, inflight) > CopiesIn(p, inflight')

\* The step takes the request in flight p to q.
Moves(p, q) == Leaves(p) /\ Arrives(q)

IsAuthorized(s) == "authorized" \in DOMAIN s /\ s["authorized"] = TRUE

WithinWindow(s, now) ==
    "last_active" \in DOMAIN s /\ now - s["last_active"] <= INACTIVITY_TIMEOUT

\* The session that the request in flight p carries is authorized, by a PIN
\* that was accepted from its client, and has not outlived the inactivity
\* window.
Live(p) ==
    /\ pin_time[p.request.client] # None
    /\ IsAuthorized(p.session)
    /\ WithinWindow(p.session, clock)

SentToPin(r) == r.status = 302 /\ r.location.endpoint = "pin"

SentToPinExpired(r) == SentToPin(r) /\ "expired" \in DOMAIN r.location.values

SentToCategory(r, slug) ==
    /\ r.status = 302
    /\ r.location.endpoint = "category_view"
    /\ r.location.values["slug"] = slug

IsWrite(req) ==
    req.method = "POST" /\ req.endpoint \in {"category_view", "delete_text"}

IsSave(req) == req.endpoint = "category_view" /\ req.method = "POST"

CarriesId(form) == "id" \in DOMAIN form /\ form["id"] # <<>>

RowIds(rows) == {r.id : r \in rows}

\* The step is the call of p that finds the database locked: the connection
\* begins to wait.
Waits(p, q) == p.busy = None /\ q = [p EXCEPT !.busy = clock]

\* The step is the call of p that has waited for the lock for the timeout of
\* sqlite3: it raises, and the request is answered with a server error.
GivesUp(p, q) ==
    /\ p.busy # None
    /\ clock - p.busy >= SqliteTimeout
    /\ q.pc = "done"
    /\ q.response.status = 500

\* A connection has a transaction open: its statement is made and not
\* committed, or its commit has failed and it is not closed.
OpenTransaction == unclosed \/ \E r \in Records : r.pc = "commit"

\* A connection is committing, or has failed to, and keeps readers out.
PendingCommit ==
    unclosed \/ \E r \in Records : r.pc = "commit" /\ r.busy # None

\* A connection has read a row and its cursor is not at its end.
OpenCursor == \E r \in Records : r.pc \in {"fetchone", "fetchall"}

\* C1: the writings table changes only in the commit of a POST to
\* category_view or delete_text that the gate has let through; the gate lets
\* a request to a protected route through only if the session it carries is,
\* at that moment, authorized by an accepted PIN and within the inactivity
\* window, and only from there does a request go on to its statements and
\* its commit; such a POST with any other session is redirected to the PIN
\* prompt, which ends it, and leaves the table unchanged.
C1_OnlyLiveSessionsWrite ==
    [][ /\ writings' # writings =>
               \E p \in Records, q \in After :
                   /\ Moves(p, q)
                   /\ IsWrite(p.request)
                   /\ p.pc = "commit"
                   /\ q.pc = "done"
        /\ \A q \in After :
               (Arrives(q) /\ q.request.endpoint \in Protected) =>
                   IF q.pc = "start"
                   THEN \A p \in Records : ~Leaves(p)
                   ELSE \E p \in Records :
                           /\ Moves(p, q)
                           /\ p.request = q.request
                           /\ q.pc = "view" =>
                                  \/ p.pc = "start" /\ Live(p)
                                  \/ p.pc = "view" /\ Waits(p, q)
                           /\ q.pc = "save" => p.pc \in {"view", "save"}
                           /\ q.pc = "commit" =>
                                  p.pc \in {"view", "save", "commit"}
                           /\ q.pc = "done" => p.pc # "done"
        /\ \A p \in Records, q \in After :
               (/\ Moves(p, q)
                /\ p.pc = "start"
                /\ IsWrite(p.request)
                /\ ~Live(p)) =>
                   /\ q.pc = "done"
                   /\ SentToPin(q.response)
                   /\ writings' = writings
      ]_vars

\* A delete with an expired session was redirected to the PIN prompt while
\* the row it names, in the category it names, is stored.
C1_Witness ==
    \E p \in Records :
        /\ p.pc = "done"
        /\ p.request.endpoint = "delete_text"
        /\ SentToPinExpired(p.response)
        /\ "slug" \in DOMAIN p.request.form
        /\ \E r \in writings :
              /\ <<r.id>> = p.request.view_args.writing_id
              /\ r.category = p.request.form["slug"]

\* The value of the pin field, a missing field read as the empty text.
Submitted(form) == IF "pin" \in DOMAIN form THEN form["pin"] ELSE <<>>

IsPinPost(req) == req.endpoint = "pin" /\ req.method = "POST"

\* C2: the session of a client that is not authorized becomes authorized
\* only in the step that answers a POST to /pin of that client whose
\* submitted value is the configured PIN; the handler of such a POST
\* authorizes the session, stamps it with the current time and redirects to
\* home; the handler of a POST to /pin with any other value, an empty or a
\* missing one included, leaves the session as it was and prompts again.
C2_OnlyCorrectPinAuthorizes ==
    [][ /\ \A c \in Clients :
              (~IsAuthorized(session[c]) /\ IsAuthorized(session'[c])) =>
                  \E p \in Records :
                      /\ Leaves(p)
                      /\ p.pc = "done"
                      /\ p.request.client = c
                      /\ IsPinPost(p.request)
                      /\ Submitted(p.request.form) = PIN_CODE
        /\ \A p \in Records, q \in After :
              (Moves(p, q) /\ IsPinPost(p.request)) =>
                  /\ q.pc = "done"
                  /\ Submitted(p.request.form) = PIN_CODE =>
                         /\ IsAuthorized(q.session)
                         /\ q.session["last_active"] = clock
                         /\ q.response.status = 302
                         /\ q.response.location.endpoint = "home"
                  /\ (Submitted(p.request.form) # PIN_CODE
                        \/ Submitted(p.request.form) = <<>>) =>
                         /\ q.session = p.session
                         /\ q.response.status = 200
                         /\ q.response.body.template = "pin.html"
      ]_vars

\* C3: a request to a protected route whose session is authorized and was
\* last active more than the inactivity window ago is redirected to the PIN
\* prompt with the expired flag and its session is emptied; from then on
\* every request of that client to a protected route is redirected to the
\* PIN prompt, until a POST to /pin with the configured PIN is handled; a
\* request to a protected route that comes at most the window after the last
\* one of its client that was let through, with no refusal and no PIN in
\* between, is let through and sets the last activity of its session to the
\* current time.
C3_InactivityWindow ==
    [][ \A p \in Records, q \in After :
          (/\ Moves(p, q)
           /\ p.pc = "start"
           /\ p.request.endpoint \in Protected) =>
              LET c == p.request.client
              IN  /\ (IsAuthorized(p.session)
                        /\ ~WithinWindow(p.session, clock)) =>
                         /\ q.pc = "done"
                         /\ SentToPinExpired(q.response)
                         /\ q.session = EmptyDict
                  /\ ~IsAuthorized(p.session) =>
                         /\ q.pc = "done"
                         /\ SentToPin(q.response)
                  /\ refused[c] =>
                         /\ q.pc = "done"
                         /\ SentToPin(q.response)
                  /\ (/\ IsAuthorized(p.session)
                      /\ ~refused[c]
                      /\ allowed[c] # None
                      /\ clock - allowed[c] <= INACTIVITY_TIMEOUT) =>
                         /\ q.pc = "view"
                         /\ IsAuthorized(q.session)
                         /\ q.session["last_active"] = clock
      ]_vars

\* The id that a text of at most nine decimal digits names
RECURSIVE NumeralValue(_)
NumeralValue(text) ==
    IF text = <<>> THEN 0
    ELSE 10 * NumeralValue(SubSeq(text, 1, Len(text) - 1))
             + (text[Len(text)] - 48)

IsNumeral(text) ==
    /\ Len(text) \in 1..9
    /\ \A k \in 1..Len(text) : text[k] \in 48..57

HasNoDigit(text) == \A k \in 1..Len(text) : text[k] \notin 48..57

\* C4: a POST to /categoria/<c> that carries an id and has passed the gate
\* takes the local time, makes its UPDATE and commits; only the commit
\* changes the table.  The commit changes at most one row, of category c,
\* and neither adds nor removes an id; a row that it changes keeps its id,
\* category and created_at and gets the submitted title and content and, as
\* updated_at, the local time the request took; when the id is a text of at
\* most nine decimal digits, the row of category c with the id it names gets
\* these values and no other row changes, so that the table is unchanged
\* when there is no such row; when the id holds no digit the table is
\* unchanged.  The UPDATE waits while another transaction is open and the
\* commit while a cursor is open, and either gives up after the timeout:
\* the request is then answered with a server error, the table unchanged.
C4_UpdateScopedByIdAndCategory ==
    [][ \A p \in Records, q \in After :
          (/\ Moves(p, q)
           /\ IsSave(p.request)
           /\ CarriesId(p.request.form)
           /\ p.request.view_args.slug \in CATEGORIES) =>
              LET slug  == p.request.view_args.slug
                  text  == p.request.form["id"]
                  named == {r \in writings :
                               /\ IsNumeral(text)
                               /\ r.id = NumeralValue(text)
                               /\ r.category = slug}
                  saved(r) == [r EXCEPT !.title = FormTitle(p.request.form),
                                        !.content = FormContent(p.request.form),
                                        !.updated_at = p.now]
              IN  /\ p.pc = "start" =>
                         writings' = writings /\ (Live(p) => q.pc = "view")
                  /\ p.pc = "view" =>
                         /\ writings' = writings
                         /\ q.pc = "save"
                         /\ q.now = clock + utcoffset
                  /\ p.pc = "save" =>
                         /\ writings' = writings
                         /\ IF ~OpenTransaction THEN q.pc = "commit"
                            ELSE Waits(p, q) \/ GivesUp(p, q)
                  /\ (p.pc = "commit" /\ OpenCursor) =>
                         /\ writings' = writings
                         /\ Waits(p, q) \/ GivesUp(p, q)
                  /\ (p.pc = "commit" /\ ~OpenCursor) =>
                         /\ q.pc = "done"
                         /\ SentToCategory(q.response, slug)
                         /\ Cardinality(writings \ writings') <= 1
                         /\ \A r \in writings \ writings' : r.category = slug
                         /\ RowIds(writings') = RowIds(writings)
                         /\ Cardinality(writings') = Cardinality(writings)
                         /\ \A r \in writings \ writings' :
                               saved(r) \in writings'
                         /\ IsNumeral(text) =>
                                writings' = (writings \ named)
                                                \cup {saved(r) : r \in named}
                         /\ HasNoDigit(text) => writings' = writings
      ]_vars

\* A save carrying a text that is not a whole number but is read as one, the
\* id of a stored row, was made under another category and answered as a
\* save; the row is still in its own category.
C4_Witness ==
    \E p \in Records :
        /\ p.pc = "done"
        /\ IsSave(p.request)
        /\ CarriesId(p.request.form)
        /\ Len(p.request.form["id"]) > 15
        /\ SentToCategory(p.response, p.request.view_args.slug)
        /\ \E r \in writings :
              /\ r.id \in SqlInteger(p.request.form["id"])
              /\ r.category # p.request.view_args.slug

\* The decimal digits of a natural number
RECURSIVE DigitsOf(_)
DigitsOf(n) ==
    IF n < 10 THEN <<n>> ELSE Append(DigitsOf(n \div 10), n % 10)

IsBlank(t) == \A k \in 1..Len(t) : t[k] \in Whitespace

\* u is t without the blanks at its ends
IsTrimOf(u, t) ==
    \E a \in 1..Len(t), b \in 1..Len(t) :
        /\ a <= b
        /\ u = SubSeq(t, a, b)
        /\ t[a] \notin Whitespace
        /\ t[b] \notin Whitespace
        /\ \A k \in 1..(a - 1) : t[k] \in Whitespace
        /\ \A k \in (b + 1)..Len(t) : t[k] \in Whitespace

SubmittedTitle(form) == IF "title" \in DOMAIN form THEN form["title"] ELSE <<>>

TitlecaseRanges ==
    << <<453, 453>>, <<456, 456>>, <<459, 459>>, <<498, 498>>, <<8072, 8079>>,
       <<8088, 8095>>, <<8104, 8111>>, <<8124, 8124>>, <<8140, 8140>>,
       <<8188, 8188>> >>

\* The uppercase code points that have no lowercase form.
UnpairedUppercaseRanges ==
    << <<978, 980>>, <<8450, 8450>>, <<8455, 8455>>, <<8459, 8461>>,
       <<8464, 8466>>, <<8469, 8469>>, <<8473, 8477>>, <<8484, 8484>>,
       <<8488, 8488>>, <<8492, 8493>>, <<8496, 8497>>, <<8499, 8499>>,
       <<8510, 8511>>, <<8517, 8517>>, <<119808, 119833>>, <<119860, 119885>>,
       <<119912, 119937>>, <<119964, 119964>>, <<119966, 119967>>,
       <<119970, 119970>>, <<119973, 119974>>, <<119977, 119980>>,
       <<119982, 119989>>, <<120016, 120041>>, <<120068, 120069>>,
       <<120071, 120074>>, <<120077, 120084>>, <<120086, 120092>>,
       <<120120, 120121>>, <<120123, 120126>>, <<120128, 120132>>,
       <<120134, 120134>>, <<120138, 120144>>, <<120172, 120197>>,
       <<120224, 120249>>, <<120276, 120301>>, <<120328, 120353>>,
       <<120380, 120405>>, <<120432, 120457>>, <<120488, 120512>>,
       <<120546, 120570>>, <<120604, 120628>>, <<120662, 120686>>,
       <<120720, 120744>>, <<120778, 120778>>, <<127280, 127305>>,
       <<127312, 127337>>, <<127344, 127369>> >>

\* The code point has a lowercase form other than itself.
HasLowercase(ch) == ch = 931 \/ LowerChar(ch) # <<ch>>

\* chr(ch).isupper()
IsUppercase(ch) ==
    \/ HasLowercase(ch) /\ ~InRanges(ch, TitlecaseRanges)
    \/ InRanges(ch, UnpairedUppercaseRanges)

\* " ", "/", "\"
Separators == {32, 47, 92}

Underscored(s) ==
    [k \in 1..Len(s) |-> IF s[k] \in Separators THEN 95 ELSE s[k]]

\* C10 as claimed: the name under which a stored writing is downloaded is
\* its lowercased title, each space, slash and backslash replaced by an
\* underscore, followed by ".pdf", and holds no uppercase letter, no space,
\* no slash and no backslash.
C10_NoUppercaseLetter ==
    [][ \A p \in Records, q \in After :
          (/\ Moves(p, q)
           /\ p.request.endpoint = "download_text"
           /\ q.response.status = 200) =>
              \E r \in writings :
                  /\ DigitsOf(r.id) = p.request.view_args.writing_id
                  /\ LET name == q.response.body.download_name
                     IN  /\ name = Underscored(Lower(r.title))
                                       \o <<46, 112, 100, 102>>
                         /\ \A k \in 1..Len(name) :
                               ~IsUppercase(name[k]) /\ name[k] \notin Separators
      ]_vars

\* C10 as amended: the name under which a stored writing is downloaded is
\* its lowercased title, each space, slash and backslash replaced by an
\* underscore, followed by ".pdf", and holds no letter that has a lowercase
\* form of its own, no space, no slash and no backslash.
C10_DownloadName ==
    [][ \A p \in Records, q \in After :
          (/\ Moves(p, q)
           /\ p.request.endpoint = "download_text"
           /\ q.response.status = 200) =>
              \E r \in writings :
                  /\ DigitsOf(r.id) = p.request.view_args.writing_id
                  /\ LET name == q.response.body.download_name
                     IN  /\ name = Underscored(Lower(r.title))
                                       \o <<46, 112, 100, 102>>
                         /\ \A k \in 1..Len(name) :
                               ~HasLowercase(name[k]) /\ name[k] \notin Separators
      ]_vars

\* A writing whose title holds an uppercase letter with a lowercase form, a
\* space and a backslash has been downloaded.
C10_Witness ==
    \E p \in Records :
        /\ p.pc = "done"
        /\ p.request.endpoint = "download_text"
        /\ p.response.status = 200
        /\ \E r \in writings :
              /\ DigitsOf(r.id) = p.request.view_args.writing_id
              /\ \E k \in 1..Len(r.title) :
                    HasLowercase(r.title[k]) /\ IsUppercase(r.title[k])
              /\ \E k \in 1..Len(r.title) : r.title[k] = 32
              /\ \E k \in 1..Len(r.title) : r.title[k] = 92
====
